---- MODULE Spec2Model ----
(***************************************************************************)
(* Forecasting and event-impact pipeline of the Ethiopia financial         *)
(* inclusion forecast repository: ForecastModeler (src/models/forecaster), *)
(* AssociationMatrixBuilder (src/models/association_matrix) and            *)
(* EventImpactModeler (src/models/event_impact).                           *)
(*                                                                         *)
(* Floating point values are fixed point integers: Unit steps per 1.0, so  *)
(* 4.75 is 475 and the percentage ceiling 100.0 is Hundred.  numpy.nan is   *)
(* the value NaN, which every arithmetic operation propagates and every    *)
(* comparison rejects, as IEEE-754 does.  Products and quotients round to  *)
(* the nearest step where float64 rounds to the nearest double.            *)
(***************************************************************************)
EXTENDS Integers, Sequences, FiniteSets, TLC

\* ------------------------------------------------------------------ numbers

\* fixed point resolution of a float64 value: steps per 1.0
Unit == 100

\* numpy.nan
NaN == -999999

\* Python None
NoneVal == -888888

\* numpy.inf: larger than any value the program computes, so that x - Inf
\* clips to 0 and x + Inf clips to 100
Inf == 777777

\* the upper clip limit 100 (percent)
Hundred == 100 * Unit

IsNaN(x) == x = NaN

Abs(x) == IF x < 0 THEN -x ELSE x

\* a / b rounded to the nearest integer, b > 0
RoundDiv(a, b) == IF a >= 0 THEN (2 * a + b) \div (2 * b)
                            ELSE -((2 * (-a) + b) \div (2 * b))

\* float addition
FAdd(a, b) == IF IsNaN(a) \/ IsNaN(b) THEN NaN ELSE a + b

\* float subtraction
FSub(a, b) == IF IsNaN(a) \/ IsNaN(b) THEN NaN ELSE a - b

\* float value x times the ratio num / den
FScale(x, num, den) == IF IsNaN(x) THEN NaN ELSE RoundDiv(x * num, den)

\* a <= b on floats: false when either side is NaN
FLe(a, b) == ~IsNaN(a) /\ ~IsNaN(b) /\ a <= b

\* Series.clip(lower=0, upper=100): NaN stays NaN
Clip(x) == IF IsNaN(x) THEN NaN
           ELSE IF x < 0 THEN 0
           ELSE IF x > Hundred THEN Hundred
           ELSE x

\* np.sqrt on a non-negative integer, rounded down (bisection: lo^2 <= n < hi^2)
RECURSIVE ISqrtBetween(_, _, _)
ISqrtBetween(n, lo, hi) ==
    IF hi - lo <= 1 THEN lo
    ELSE LET mid == (lo + hi) \div 2
         IN IF mid * mid <= n THEN ISqrtBetween(n, mid, hi)
                              ELSE ISqrtBetween(n, lo, mid)

ISqrt(n) == ISqrtBetween(n, 0, IF n < 46340 THEN n + 1 ELSE 46341)

RECURSIVE SeqSum(_)
SeqSum(s) == IF s = << >> THEN 0 ELSE Head(s) + SeqSum(Tail(s))

SeqsUpTo(S, n) == UNION {[1..k -> S] : k \in 0..n}

\* ------------------------------------------------------------------ bounds

\* most observation records in the unified data
MaxObs == 3

\* most impact links in the datasets of a forecast_indicator call
MaxLinks == 1

\* ------------------------------------------------------------------ data

\* the indicator and pillar a forecast is requested for
TargetIndicator == "ACC_OWNERSHIP"

OtherIndicator == "USG_DIGITAL_PAY"

TargetPillar == "ACCESS"

\* years of the observation records
ObsYears == {2021, 2022, 2023}

\* value_numeric of the observation records
ObsValues == {20 * Unit, 80 * Unit}

\* the forecast_years argument
ForecastYears == <<2024, 2025>>

\* observation rows of unified_data for the requested indicator
ObsRecords == [record_type : {"observation"}, pillar : {TargetPillar},
               indicator_code : {TargetIndicator},
               year : ObsYears, value_numeric : ObsValues]

\* event rows of unified_data: record_id -> year of observation_date
\* (NaN: the date does not parse, pd.to_datetime gives NaT)
EventTable == [E1 |-> 2023, E2 |-> NaN]

\* ForecastModeler: the position of the running call, the loaded datasets, the
\* arguments and every intermediate and returned table
VARIABLES pc, unified_data, impact_links, include_events, historical, model,
          baseline, forecast, multipliers, scenarios, raised

fvars == <<pc, unified_data, impact_links, include_events, historical, model,
           baseline, forecast, multipliers, scenarios, raised>>

fvars_but_pc == <<unified_data, impact_links, include_events, historical, model,
                  baseline, forecast, multipliers, scenarios, raised>>

\* ------------------------------------------------------------------ get_historical_series

RECURSIVE SortedSeq(_)
SortedSeq(S) == IF S = {} THEN << >>
                ELSE LET m == CHOOSE x \in S : \A y \in S : x <= y
                     IN <<m>> \o SortedSeq(S \ {m})

\* GroupBy.last(): the last non-null value of the group, NaN when it has none
RECURSIVE GroupLast(_, _)
GroupLast(rows, y) ==
    IF rows = << >> THEN NaN
    ELSE LET r == rows[Len(rows)]
         IN IF r.year = y /\ ~IsNaN(r.value_numeric) THEN r.value_numeric
            ELSE GroupLast(SubSeq(rows, 1, Len(rows) - 1), y)

GetHistoricalSeries(data, indicator_code, pillar) ==
    LET IsRow(r) == /\ r.record_type = "observation"
                    /\ r.pillar = pillar
                    /\ r.indicator_code = indicator_code
        rows == SelectSeq(data, IsRow)
        years == {rows[i].year : i \in 1..Len(rows)} \ {NaN}
        grouped == [i \in 1..Cardinality(years) |->
                      [year |-> SortedSeq(years)[i],
                       value_numeric |-> GroupLast(rows, SortedSeq(years)[i])]]
        Present(g) == ~IsNaN(g.value_numeric)
    IN SelectSeq(grouped, Present)

\* ------------------------------------------------------------------ fit_trend_model

\* LinearRegression.fit on (year, value): the centred sums, scaled by n so
\* that they stay integers.  coef_ = sdy / sdd, intercept_ = sy/n - coef_ * sx/n
FitLinear(series) ==
    LET n == Len(series)
        sx == SeqSum([i \in 1..n |-> series[i].year])
        sy == SeqSum([i \in 1..n |-> series[i].value_numeric])
        dx(i) == n * series[i].year - sx
        dy(i) == n * series[i].value_numeric - sy
    IN [n |-> n, sx |-> sx, sy |-> sy,
        sdd |-> SeqSum([i \in 1..n |-> dx(i) * dx(i)]),
        sdy |-> SeqSum([i \in 1..n |-> dx(i) * dy(i)])]

\* model.predict at year x; when all years are equal the centred X is all
\* zero and the least-squares solution of least norm has coef_ = 0
Predict(m, x) ==
    IF m.sdd = 0 THEN RoundDiv(m.sy, m.n)
    ELSE RoundDiv(m.sy * m.sdd + m.sdy * (m.n * x - m.sx), m.n * m.sdd)

\* fit_trend_model raises for an empty series or one with fewer than 2 points
FitRaisesWrong(series) == Len(series) < 1

FitRaises(series) == Len(series) < 2

\* ------------------------------------------------------------------ forecast_trend

\* stats.t.ppf((1 + 0.95) / 2, df) in thousandths; NaN when df <= 0 (scipy
\* answers NaN for a distribution parameter outside its domain)
TCritical(df) == IF df <= 0 THEN NaN
                 ELSE IF df = 1 THEN 12706
                 ELSE IF df = 2 THEN 4303
                 ELSE IF df = 3 THEN 3182
                 ELSE 2776

\* np.std(residuals) of the fitted line on the historical series
StdError(m, series) ==
    LET n == Len(series)
        res(i) == series[i].value_numeric - Predict(m, series[i].year)
    IN ISqrt(SeqSum([i \in 1..n |-> res(i) * res(i)]) \div n)

\* sqrt(1 + 1/n + (x0 - mean)^2 / sum((x - mean)^2)) in hundredths
SeFactor(m, x0) ==
    LET dev == m.n * x0 - m.sx
    IN ISqrt((10000 * ((m.n + 1) * m.sdd + m.n * dev * dev)) \div (m.n * m.sdd))

\* margin = t_critical * std_error * se factor; with
\* np.sum((X_hist - X_hist_mean)**2) = 0 the quotient is 0/0 = nan for
\* x0 = mean and inf otherwise; nan and 0 * inf are nan, finite * inf is inf
Margin(m, series, x0) ==
    LET t == TCritical(Len(series) - 2)
    IN IF IsNaN(t) THEN NaN
       ELSE IF m.sdd = 0
       THEN (IF m.n * x0 = m.sx \/ StdError(m, series) = 0 THEN NaN ELSE Inf)
       ELSE (((StdError(m, series) * SeFactor(m, x0)) \div 100) * t) \div 1000

ForecastTrend(m, series, years) ==
    [k \in 1..Len(years) |->
        LET y == Predict(m, years[k])
            margin == Margin(m, series, years[k])
        IN [year |-> years[k],
            forecast |-> Clip(y),
            lower_bound |-> Clip(FSub(y, margin)),
            upper_bound |-> Clip(FAdd(y, margin))]]

\* ------------------------------------------------------------------ apply_event_effects

\* float(impact_magnitude) if impact_magnitude is not None else 0.0
MagnitudeOf(link) ==
    IF link.impact_magnitude = NoneVal THEN 0 ELSE link.impact_magnitude

\* int(lag_months) if lag_months is not None else 0; int(nan) raises, giving 0
LagOf(link) ==
    IF link.lag_months = NoneVal \/ IsNaN(link.lag_months) THEN 0
    ELSE link.lag_months

\* the effect one link adds to the row of forecast_year (0: nothing is added)
LinkEffectWrong(link, events, forecast_year) ==
    IF link.parent_id \notin DOMAIN events \/ IsNaN(events[link.parent_id])
    THEN 0
    ELSE LET months_after_event ==
                 (forecast_year - events[link.parent_id]) * 12 - LagOf(link)
             effect == FScale(MagnitudeOf(link),
                              IF months_after_event < 12 THEN months_after_event
                              ELSE 12, 12)
         IN IF months_after_event > 0
            THEN (IF link.impact_direction = "decrease" /\ ~IsNaN(effect)
                  THEN -effect ELSE effect)
            ELSE 0

LinkEffect(link, events, forecast_year) ==
    IF link.parent_id \notin DOMAIN events \/ IsNaN(events[link.parent_id])
    THEN 0
    ELSE LET months_after_event ==
                 (forecast_year - events[link.parent_id]) * 12 - LagOf(link)
             effect == FScale(MagnitudeOf(link),
                              IF months_after_event < 24 THEN months_after_event
                              ELSE 24, 24)
         IN IF months_after_event > 0
            THEN (IF link.impact_direction = "decrease" /\ ~IsNaN(effect)
                  THEN -effect ELSE effect)
            ELSE 0

\* event_effect of one row: 0.0, then += effect for each relevant link in order
RECURSIVE EventEffect(_, _, _)
EventEffect(links, events, forecast_year) ==
    IF links = << >> THEN 0
    ELSE FAdd(EventEffect(SubSeq(links, 1, Len(links) - 1), events, forecast_year),
              LinkEffect(links[Len(links)], events, forecast_year))

ApplyEventEffects(baseline_forecast, events, links, indicator_code) ==
    LET IsRelevant(l) == l.related_indicator = indicator_code
        relevant_links == SelectSeq(links, IsRelevant)
    IN [k \in 1..Len(baseline_forecast) |->
          LET row == baseline_forecast[k]
              event_effect == EventEffect(relevant_links, events, row.year)
          IN IF relevant_links = << >>
             THEN [year |-> row.year, forecast |-> row.forecast,
                   lower_bound |-> row.lower_bound,
                   upper_bound |-> row.upper_bound, event_effect |-> 0]
             ELSE [year |-> row.year,
                   forecast |-> Clip(FAdd(row.forecast, event_effect)),
                   lower_bound |-> row.lower_bound,
                   upper_bound |-> row.upper_bound,
                   event_effect |-> event_effect]]

\* ------------------------------------------------------------------ generate_scenarios

\* optimistic_multiplier = 1.2 and pessimistic_multiplier = 0.8, in Unit steps
OptimisticMultiplier == 120

PessimisticMultiplier == 80

\* (column * multiplier).clip(lower=0, upper=100) on every row of the table
Scaled(table, multiplier) ==
    [k \in 1..Len(table) |->
        [table[k] EXCEPT
            !.forecast = Clip(FScale(table[k].forecast, multiplier, Unit)),
            !.upper_bound = Clip(FScale(table[k].upper_bound, multiplier, Unit)),
            !.lower_bound = Clip(FScale(table[k].lower_bound, multiplier, Unit))]]

GenerateScenarios(base_forecast, optimistic_multiplier, pessimistic_multiplier) ==
    [base |-> base_forecast,
     optimistic |-> Scaled(base_forecast, optimistic_multiplier),
     pessimistic |-> Scaled(base_forecast, pessimistic_multiplier)]

\* ------------------------------------------------------------------ forecast_indicator

\* impact links of the datasets a forecast_indicator call reads
PipelineLinks == [parent_id : {"E1"}, related_indicator : {TargetIndicator},
                  impact_direction : {"increase", "decrease"},
                  impact_magnitude : {480, NaN}, lag_months : {0}]

NoTable == << >>

NoModel == [n |-> 0, sx |-> 0, sy |-> 0, sdd |-> 0, sdy |-> 0]

DefaultMultipliers == [optimistic |-> OptimisticMultiplier,
                       pessimistic |-> PessimisticMultiplier]

NoScenarios == [base |-> << >>, optimistic |-> << >>, pessimistic |-> << >>]

InitForecast ==
    /\ pc = "idle"
    /\ unified_data = << >>
    /\ impact_links = << >>
    /\ include_events = FALSE
    /\ historical = NoTable
    /\ model = NoModel
    /\ baseline = NoTable
    /\ forecast = NoTable
    /\ multipliers = DefaultMultipliers
    /\ scenarios = NoScenarios
    /\ raised = "none"

\* forecast_indicator is called: the datasets are loaded and the historical
\* series extracted; an empty series raises "No historical data"
GetHistorical ==
    /\ pc = "idle"
    /\ \E data \in SeqsUpTo(ObsRecords, MaxObs),
          links \in SeqsUpTo(PipelineLinks, MaxLinks),
          with_events \in BOOLEAN :
          /\ unified_data' = data
          /\ impact_links' = links
          /\ include_events' = with_events
          /\ historical' = GetHistoricalSeries(data, TargetIndicator, TargetPillar)
    /\ IF historical' = << >>
       THEN pc' = "error" /\ raised' = "forecast_indicator"
       ELSE pc' = "fit" /\ raised' = raised
    /\ UNCHANGED <<model, baseline, forecast, multipliers, scenarios>>

\* fit_trend_model(historical, "linear"); the "log" model (np.log, np.exp) is
\* outside this integer arithmetic and is not modelled
FitTrendModel ==
    /\ pc = "fit"
    /\ IF FitRaises(historical)
       THEN pc' = "error" /\ raised' = "fit_trend_model" /\ model' = model
       ELSE pc' = "trend" /\ raised' = raised /\ model' = FitLinear(historical)
    /\ UNCHANGED <<unified_data, impact_links, include_events, historical,
                   baseline, forecast, multipliers, scenarios>>

\* baseline = forecast_trend(model, historical, forecast_years, "linear", 0.95)
ForecastTrendStep ==
    /\ pc = "trend"
    /\ baseline' = ForecastTrend(model, historical, ForecastYears)
    /\ pc' = "events"
    /\ UNCHANGED <<unified_data, impact_links, include_events, historical,
                   model, forecast, multipliers, scenarios, raised>>

\* "impact_links" in self._datasets: load_all_data leaves the key out when the
\* sheet is absent or empty, so the loaded table is never an empty one
HasLinksTable(links) == links # << >>

\* apply_event_effects(baseline, events, impact_links, indicator_code) when
\* include_events, else baseline.copy().  Without the key impact_links is
\* pd.DataFrame(), a frame with no columns, and
\* impact_links["related_indicator"] raises KeyError
ApplyEventsStep ==
    /\ pc = "events"
    /\ IF include_events /\ ~HasLinksTable(impact_links)
       THEN /\ pc' = "error"
            /\ raised' = "apply_event_effects"
            /\ forecast' = forecast
       ELSE /\ pc' = "scenarios"
            /\ raised' = raised
            /\ forecast' = IF include_events
                           THEN ApplyEventEffects(baseline, EventTable,
                                                  impact_links, TargetIndicator)
                           ELSE baseline
    /\ UNCHANGED <<unified_data, impact_links, include_events, historical,
                   model, baseline, multipliers, scenarios>>

\* scenarios = generate_scenarios(forecast_with_events); the result is returned
GenerateScenariosStep ==
    /\ pc = "scenarios"
    /\ scenarios' = GenerateScenarios(forecast, multipliers.optimistic,
                                      multipliers.pessimistic)
    /\ pc' = "done"
    /\ UNCHANGED <<unified_data, impact_links, include_events, historical,
                   model, baseline, forecast, multipliers, raised>>

NextForecast ==
    \/ GetHistorical
    \/ FitTrendModel
    \/ ForecastTrendStep
    \/ ApplyEventsStep
    \/ GenerateScenariosStep

\* ------------------------------------------------------------------ direct calls

\* most points of a series passed to fit_trend_model and forecast_trend
MaxTrendPoints == 3

\* points of such a series: any order, years may repeat
TrendPoints == [year : {2022, 2023}, value_numeric : {20 * Unit, 80 * Unit}]

\* a caller passes its own series to fit_trend_model and then forecast_trend
PassSeries ==
    /\ pc = "idle"
    /\ \E series \in SeqsUpTo(TrendPoints, MaxTrendPoints) : historical' = series
    /\ pc' = "fit"
    /\ UNCHANGED <<unified_data, impact_links, include_events, model, baseline,
                   forecast, multipliers, scenarios, raised>>

NextTrend == PassSeries \/ FitTrendModel \/ ForecastTrendStep

\* most impact links passed to one apply_event_effects call
MaxEvLinks == 2

\* most rows of a table passed to one generate_scenarios call
MaxScenRows == 1

\* impact links of a direct apply_event_effects call: E1 is an event of 2023,
\* E2 an event whose date does not parse, E3 no event at all
EventLinks == [parent_id : {"E1", "E2", "E3"},
               related_indicator : {TargetIndicator, OtherIndicator},
               impact_direction : {"increase", "decrease"},
               impact_magnitude : {480, NaN}, lag_months : {0, 18}]

\* a baseline as forecast_trend returns it: flat, inside [0, 100]
FlatBaseline(value) ==
    [k \in 1..Len(ForecastYears) |->
        [year |-> ForecastYears[k], forecast |-> value,
         lower_bound |-> Clip(value - 5 * Unit),
         upper_bound |-> Clip(value + 5 * Unit)]]

BaselineValues == {2 * Unit, 10 * Unit, 99 * Unit}

\* apply_event_effects(baseline_forecast, events, impact_links, indicator_code)
ApplyEventEffectsCall ==
    /\ pc = "idle"
    /\ \E value \in BaselineValues, links \in SeqsUpTo(EventLinks, MaxEvLinks) :
          /\ baseline' = FlatBaseline(value)
          /\ impact_links' = links
          /\ forecast' = ApplyEventEffects(FlatBaseline(value), EventTable, links,
                                           TargetIndicator)
    /\ pc' = "applied"
    /\ UNCHANGED <<unified_data, include_events, historical, model, multipliers,
                   scenarios, raised>>

\* values of the columns of a table passed to generate_scenarios
ScenarioValues == {-10 * Unit, 0, 50 * Unit, 90 * Unit, 150 * Unit, NaN}

ScenarioRows == [year : {2024}, forecast : ScenarioValues,
                 lower_bound : ScenarioValues, upper_bound : ScenarioValues]

ScenarioMultipliers == {DefaultMultipliers,
                        [optimistic |-> 150, pessimistic |-> 50]}

\* generate_scenarios(base_forecast, optimistic_multiplier, pessimistic_multiplier)
GenerateScenariosCall ==
    /\ pc = "idle"
    /\ \E table \in SeqsUpTo(ScenarioRows, MaxScenRows) \ {<< >>},
          mult \in ScenarioMultipliers :
          /\ forecast' = table
          /\ multipliers' = mult
          /\ scenarios' = GenerateScenarios(table, mult.optimistic, mult.pessimistic)
    /\ pc' = "generated"
    /\ UNCHANGED <<unified_data, impact_links, include_events, historical, model,
                   baseline, raised>>

\* most records in the unified data of a direct get_historical_series call
MaxHistRows == 3

\* records of a direct get_historical_series call: observations of the
\* requested indicator and pillar with every year and value (NaN: a date that
\* does not parse, a missing value), and one record each of another record
\* type, pillar and indicator
HistRecords ==
    [record_type : {"observation"}, pillar : {TargetPillar},
     indicator_code : {TargetIndicator},
     year : {2021, 2022, NaN}, value_numeric : {20 * Unit, 80 * Unit, NaN}]
    \cup {[record_type |-> "event", pillar |-> TargetPillar,
           indicator_code |-> TargetIndicator,
           year |-> 2021, value_numeric |-> 50 * Unit],
          [record_type |-> "observation", pillar |-> "USAGE",
           indicator_code |-> TargetIndicator,
           year |-> 2021, value_numeric |-> 50 * Unit],
          [record_type |-> "observation", pillar |-> TargetPillar,
           indicator_code |-> OtherIndicator,
           year |-> 2021, value_numeric |-> 50 * Unit]}

\* series = get_historical_series(indicator_code, pillar)
GetHistoricalSeriesCall ==
    /\ pc = "idle"
    /\ \E data \in SeqsUpTo(HistRecords, MaxHistRows) :
          /\ unified_data' = data
          /\ historical' = GetHistoricalSeries(data, TargetIndicator, TargetPillar)
    /\ pc' = "extracted"
    /\ UNCHANGED <<impact_links, include_events, model, baseline, forecast,
                   multipliers, scenarios, raised>>

\* ------------------------------------------------------------------ repeated forecast_indicator calls

\* the results that the forecast_indicator calls on one ForecastModeler have
\* returned so far, in call order
VARIABLES returned

rvars == <<returned>>

\* calls of forecast_indicator on the same ForecastModeler
MaxCalls == 2

\* what data_explorer.load_all_data() would give when read again
ReloadedDatasets ==
    [is_none |-> FALSE,
     unified_data |->
         <<[record_type |-> "observation", pillar |-> TargetPillar,
            indicator_code |-> TargetIndicator,
            year |-> 2021, value_numeric |-> 20 * Unit],
           [record_type |-> "observation", pillar |-> TargetPillar,
            indicator_code |-> TargetIndicator,
            year |-> 2023, value_numeric |-> 20 * Unit]>>,
     impact_links |-> << >>]

\* load_data: self._datasets is read once and kept
LoadDataWrong(datasets, loaded) == loaded

LoadData(datasets, loaded) == IF datasets.is_none THEN loaded ELSE datasets

InitRepeat == returned = << >>

\* forecast_indicator returns its dictionary
ReturnResult ==
    /\ pc = "done"
    /\ Len(returned) < MaxCalls
    /\ returned' = Append(returned,
                          [historical |-> historical, baseline |-> baseline,
                           forecast |-> forecast, scenarios |-> scenarios,
                           unified_data |-> unified_data,
                           impact_links |-> impact_links])
    /\ pc' = "returned"
    /\ UNCHANGED fvars_but_pc

\* forecast_indicator is called again with the same arguments: self._datasets
\* is already loaded, the locals of the call are new
CallAgain ==
    /\ pc = "returned"
    /\ Len(returned) < MaxCalls
    /\ LET datasets == LoadData([is_none |-> FALSE,
                                 unified_data |-> unified_data,
                                 impact_links |-> impact_links],
                                ReloadedDatasets)
       IN /\ unified_data' = datasets.unified_data
          /\ impact_links' = datasets.impact_links
          /\ historical' = GetHistoricalSeries(datasets.unified_data,
                                               TargetIndicator, TargetPillar)
    /\ IF historical' = << >>
       THEN pc' = "error" /\ raised' = "forecast_indicator"
       ELSE pc' = "fit" /\ raised' = raised
    /\ model' = NoModel
    /\ baseline' = NoTable
    /\ forecast' = NoTable
    /\ scenarios' = NoScenarios
    /\ UNCHANGED <<include_events, multipliers, returned>>

NextRepeat ==
    \/ NextForecast /\ UNCHANGED returned
    \/ ReturnResult
    \/ CallAgain

\* ------------------------------------------------------------------ association matrix

\* AssociationMatrixBuilder: the position of the call, the impact links that
\* load_impact_data returns, the indicators and events arguments, the matrix and
\* its summary
VARIABLES mpc, matrix_links, indicators_arg, events_arg, matrix, summary

mvars == <<mpc, matrix_links, indicators_arg, events_arg, matrix, summary>>

\* most impact links load_impact_data returns
MaxMatrixLinks == 2

\* most rows of a matrix passed to get_matrix_summary
MaxSummaryRows == 2

\* a related_indicator cell that is empty
NoIndicator == "nan"

MatrixEvents == <<"E1", "E2", "E3">>

MatrixIndicators == <<"ACC_OWNERSHIP", "USG_DIGITAL_PAY">>

MatrixLinks == [parent_id : {"E1", "E2"},
                related_indicator : {"ACC_OWNERSHIP", "USG_DIGITAL_PAY", NoIndicator},
                impact_magnitude : {30, 70, NaN},
                impact_direction : {"increase", "decrease"}]

\* an indicators or events argument: None (all of the links') or a list
NoFilter == [is_none |-> TRUE, list |-> << >>]

Filter(list) == [is_none |-> FALSE, list |-> list]

\* pd.DataFrame(): no rows, no columns
EmptyMatrix == [index |-> << >>, columns |-> << >>, cells |-> << >>]

NoSummary == [total_impacts |-> NoneVal]

\* Series.unique(): the distinct values in order of first appearance
RECURSIVE Unique(_)
Unique(s) ==
    IF s = << >> THEN << >>
    ELSE LET init == Unique(SubSeq(s, 1, Len(s) - 1))
             last == s[Len(s)]
         IN IF \E k \in 1..Len(init) : init[k] = last THEN init
            ELSE Append(init, last)

Range(s) == {s[k] : k \in 1..Len(s)}

\* pd.notna
NotNa(x) == ~IsNaN(x) /\ x # NoneVal

\* the signed value of a link: float(impact_magnitude), negated for "decrease";
\* without a magnitude 0.1 for "increase" and -0.1 otherwise
LinkValueWrong(link) ==
    IF NotNa(link.impact_magnitude) THEN link.impact_magnitude
    ELSE IF link.impact_direction = "increase" THEN Unit \div 10
    ELSE -(Unit \div 10)

LinkValue(link) ==
    IF NotNa(link.impact_magnitude)
    THEN (IF link.impact_direction = "decrease" THEN -link.impact_magnitude
          ELSE link.impact_magnitude)
    ELSE IF link.impact_direction = "increase" THEN Unit \div 10
    ELSE -(Unit \div 10)

\* the cell after a link of the given value: set when still NaN, else replaced
\* only by a value that is larger in absolute value
CombineWrong(cell, value) ==
    IF IsNaN(cell) THEN value
    ELSE IF value > cell THEN value
    ELSE cell

Combine(cell, value) ==
    IF IsNaN(cell) THEN value
    ELSE IF Abs(value) > Abs(cell) THEN value
    ELSE cell

\* the loop over impact_links.iterrows(), from link k on
RECURSIVE FillMatrix(_, _, _)
FillMatrix(links, k, cells) ==
    IF k > Len(links) THEN cells
    ELSE LET link == links[k]
             at == <<link.parent_id, link.related_indicator>>
         IN FillMatrix(links, k + 1,
                IF at \in DOMAIN cells
                THEN [cells EXCEPT ![at] = Combine(cells[at], LinkValue(link))]
                ELSE cells)

\* matrix.fillna(0.0)
FillNaWrong(cells) == cells

FillNa(cells) == [at \in DOMAIN cells |-> IF IsNaN(cells[at]) THEN 0 ELSE cells[at]]

\* build_association_matrix(indicators, events)
BuildAssociationMatrix(links, indicators, events) ==
    IF links = << >> THEN EmptyMatrix
    ELSE LET index ==
                 IF events.is_none
                 THEN Unique([k \in 1..Len(links) |-> links[k].parent_id])
                 ELSE events.list
             HasIndicator(x) == x # NoIndicator
             columns ==
                 IF indicators.is_none
                 THEN Unique(SelectSeq([k \in 1..Len(links) |->
                                           links[k].related_indicator], HasIndicator))
                 ELSE indicators.list
             blank == [at \in Range(index) \X Range(columns) |-> NaN]
         IN [index |-> index, columns |-> columns,
             cells |-> FillNa(FillMatrix(links, 1, blank))]

\* ------------------------------------------------------------------ get_matrix_summary

RECURSIVE SumAbs(_, _)
SumAbs(m, ats) ==
    IF ats = {} THEN 0
    ELSE LET at == CHOOSE a \in ats : TRUE
         IN Abs(m.cells[at]) + SumAbs(m, ats \ {at})

NonZero(m, ats) == {at \in ats : m.cells[at] # 0}

\* a float kept as an exact fraction
Frac(num, den) == [num |-> num, den |-> den]

FracEq(a, b) == a.num * b.den = b.num * a.den

\* the sum of the column means: Series.mean() over the per-column means
RECURSIVE SumColumnMeans(_, _)
SumColumnMeans(m, cols) ==
    IF cols = {} THEN Frac(0, 1)
    ELSE LET c == CHOOSE x \in cols : TRUE
             rest == SumColumnMeans(m, cols \ {c})
             column == NonZero(m, Range(m.index) \X {c})
         IN Frac(SumAbs(m, column) * rest.den + rest.num * Cardinality(column),
                 Cardinality(column) * rest.den)

\* matrix[matrix != 0].abs().mean().mean(): the mean over the columns that have
\* a non-zero cell of the column's mean absolute non-zero value
AverageImpactMagnitude(m) ==
    LET cols == {c \in Range(m.columns) : NonZero(m, Range(m.index) \X {c}) # {}}
        total == SumColumnMeans(m, cols)
    IN IF cols = {} THEN Frac(0, 1)
       ELSE Frac(total.num, total.den * Cardinality(cols))

Max(S) == CHOOSE x \in S : \A y \in S : y <= x

Min(S) == CHOOSE x \in S : \A y \in S : x <= y

GetMatrixSummary(m) ==
    IF m.index = << >> \/ m.columns = << >> THEN NoSummary
    ELSE LET all == Range(m.index) \X Range(m.columns)
         IN [total_events |-> Len(m.index),
             total_indicators |-> Len(m.columns),
             total_impacts |-> Cardinality(NonZero(m, all)),
             positive_impacts |-> Cardinality({at \in all : m.cells[at] > 0}),
             negative_impacts |-> Cardinality({at \in all : m.cells[at] < 0}),
             events_with_impacts |->
                 Cardinality({e \in Range(m.index) :
                                 NonZero(m, {e} \X Range(m.columns)) # {}}),
             indicators_with_impacts |->
                 Cardinality({c \in Range(m.columns) :
                                 NonZero(m, Range(m.index) \X {c}) # {}}),
             max_positive_impact |-> Max({m.cells[at] : at \in all}),
             max_negative_impact |-> Min({m.cells[at] : at \in all}),
             average_impact_magnitude |-> AverageImpactMagnitude(m)]

InitMatrix ==
    /\ mpc = "idle"
    /\ matrix_links = << >>
    /\ indicators_arg = NoFilter
    /\ events_arg = NoFilter
    /\ matrix = EmptyMatrix
    /\ summary = NoSummary

\* matrix = build_association_matrix(indicators)
BuildMatrixCall ==
    /\ mpc = "idle"
    /\ \E links \in SeqsUpTo(MatrixLinks, MaxMatrixLinks),
          indicators \in {NoFilter, Filter(<<"ACC_OWNERSHIP">>)},
          events \in {NoFilter, Filter(<<"E2", "E3">>)} :
          /\ matrix_links' = links
          /\ indicators_arg' = indicators
          /\ events_arg' = events
          /\ matrix' = BuildAssociationMatrix(links, indicators, events)
    /\ mpc' = "built"
    /\ UNCHANGED summary

\* most impact links of a matrix built from links of any direction
MaxDirectionLinks == 2

\* an impact_direction cell that is empty
NoDirection == "nan"

\* impact links whose impact_direction is any value or missing
DirectionLinks ==
    [parent_id : {"E1"},
     related_indicator : {"ACC_OWNERSHIP", "USG_DIGITAL_PAY"},
     impact_magnitude : {30, NaN},
     impact_direction : {"increase", "decrease", "mixed", NoDirection}]

\* matrix = build_association_matrix() on links of any direction
BuildMatrixAnyDirection ==
    /\ mpc = "idle"
    /\ \E links \in SeqsUpTo(DirectionLinks, MaxDirectionLinks) :
          /\ matrix_links' = links
          /\ matrix' = BuildAssociationMatrix(links, NoFilter, NoFilter)
    /\ mpc' = "built"
    /\ UNCHANGED <<indicators_arg, events_arg, summary>>

\* summary = get_matrix_summary(matrix), on the matrix just built
SummaryOfBuilt ==
    /\ mpc = "built"
    /\ summary' = GetMatrixSummary(matrix)
    /\ mpc' = "summarised"
    /\ UNCHANGED <<matrix_links, indicators_arg, events_arg, matrix>>

\* cell values a built matrix can hold
SummaryValues == {-70, 0, 10, 30}

\* summary = get_matrix_summary(matrix), on a matrix of any shape and content
SummaryCall ==
    /\ mpc = "idle"
    /\ \E rows \in 1..MaxSummaryRows :
       \E cells \in [(1..rows) \X (1..2) -> SummaryValues] :
          matrix' = [index |-> SubSeq(MatrixEvents, 1, rows),
                     columns |-> MatrixIndicators,
                     cells |-> [at \in Range(SubSeq(MatrixEvents, 1, rows))
                                       \X Range(MatrixIndicators) |->
                                  cells[<<CHOOSE r \in 1..rows : MatrixEvents[r] = at[1],
                                          CHOOSE c \in 1..2 : MatrixIndicators[c] = at[2]>>]]]
    /\ summary' = GetMatrixSummary(matrix')
    /\ mpc' = "summarised"
    /\ UNCHANGED <<matrix_links, indicators_arg, events_arg>>

\* ------------------------------------------------------------------ event effect over time

\* EventImpactModeler.represent_event_effect_over_time: the position of the
\* call, its arguments and the returned series
VARIABLES epc, effect_args, effect_series

evars == <<epc, effect_args, effect_series>>

\* largest lag_months short of the series' end
MaxLag == 3

\* periods=36: three years of month ends
Periods == 36

\* decay_rate = 0.95, in ten-thousandths
DecayRate == 9500

\* decay_rate ** (1/30), the decay of one day, in ten-thousandths
DayDecayRate == 9983

IsLeap(y) == (y % 4 = 0 /\ y % 100 # 0) \/ y % 400 = 0

DaysInMonth(y, m) == IF m = 2 THEN (IF IsLeap(y) THEN 29 ELSE 28)
                     ELSE IF m \in {4, 6, 9, 11} THEN 30
                     ELSE 31

\* (months_after - event_date).days of the k-th point (k = 0 is the first month
\* end on or after event_date): freq="M" steps from month end to month end
RECURSIVE DaysAfter(_, _)
DaysAfter(date, k) ==
    IF k = 0 THEN DaysInMonth(date.year, date.month) - date.day
    ELSE LET months == date.month - 1 + k
         IN DaysAfter(date, k - 1)
              + DaysInMonth(date.year + (months \div 12), (months % 12) + 1)

\* rate ** n in ten-thousandths
RECURSIVE PowerOf(_, _)
PowerOf(rate, n) == IF n = 0 THEN 10000
                    ELSE RoundDiv(PowerOf(rate, n - 1) * rate, 10000)

\* decay_rate ** (days / 30) in ten-thousandths
Decay(days) ==
    RoundDiv(PowerOf(DecayRate, days \div 30) * PowerOf(DayDecayRate, days % 30),
             10000)

\* np.where(days >= lag_months * 30, impact_magnitude, 0.0)
ImmediateEffectWrong(days, impact_magnitude, lag_months) ==
    IF days > lag_months * 30 THEN impact_magnitude ELSE 0

ImmediateEffect(days, impact_magnitude, lag_months) ==
    IF days >= lag_months * 30 THEN impact_magnitude ELSE 0

\* months_since_lag = days / 30 - lag_months;
\* impact_magnitude * min(months_since_lag / 12, 1.0) when it is >= 0
GradualEffectWrong(days, impact_magnitude, lag_months) ==
    LET since == days - lag_months * 30
    IN IF since >= 0
       THEN FScale(impact_magnitude, IF since < 720 THEN since ELSE 720, 720)
       ELSE 0

GradualEffect(days, impact_magnitude, lag_months) ==
    LET since == days - lag_months * 30
    IN IF since >= 0
       THEN FScale(impact_magnitude, IF since < 360 THEN since ELSE 360, 360)
       ELSE 0

\* impact_magnitude * decay_rate ** months_since_lag when it is >= 0
DistributedEffectWrong(days, impact_magnitude, lag_months) ==
    LET since == days - lag_months * 30
    IN IF since >= 0 THEN FScale(impact_magnitude, 20000 - Decay(since), 10000)
       ELSE 0

DistributedEffect(days, impact_magnitude, lag_months) ==
    LET since == days - lag_months * 30
    IN IF since >= 0 THEN FScale(impact_magnitude, Decay(since), 10000) ELSE 0

\* the series over the 36 month ends: days since the event and effect
RepresentEventEffectOverTime(event_date, impact_magnitude, lag_months, effect_type) ==
    [p \in 1..Periods |->
        LET days == DaysAfter(event_date, p - 1)
        IN [days |-> days,
            effect |->
                IF effect_type = "immediate"
                THEN ImmediateEffect(days, impact_magnitude, lag_months)
                ELSE IF effect_type = "gradual"
                THEN GradualEffect(days, impact_magnitude, lag_months)
                ELSE IF effect_type = "distributed"
                THEN DistributedEffect(days, impact_magnitude, lag_months)
                ELSE 0]]

EventDates == [year : {2023}, month : 1..12, day : {1, 15, 28}]

EffectArgs == [event_date : EventDates, impact_magnitude : {475, -240},
               lag_months : (0..MaxLag) \cup {40},
               effect_type : {"immediate", "gradual", "distributed", "step"}]

NoArgs == [event_date |-> [year |-> 0, month |-> 0, day |-> 0],
           impact_magnitude |-> 0, lag_months |-> 0, effect_type |-> ""]

InitEffect ==
    /\ epc = "idle"
    /\ effect_args = NoArgs
    /\ effect_series = << >>

\* represent_event_effect_over_time(event_date, impact_magnitude, lag_months,
\* effect_type)
RepresentEffectCall ==
    /\ epc = "idle"
    /\ \E args \in EffectArgs :
          /\ effect_args' = args
          /\ effect_series' = RepresentEventEffectOverTime(args.event_date,
                                  args.impact_magnitude, args.lag_months,
                                  args.effect_type)
    /\ epc' = "done"

\* ------------------------------------------------------------------ combine_multiple_event_effects

\* EventImpactModeler.combine_multiple_event_effects: the position of the call,
\* its arguments and the returned series
VARIABLES cpc, event_effects, combination_method, combined

cvars == <<cpc, event_effects, combination_method, combined>>

\* most series in the event_effects list
MaxSeries == 2

\* index labels (months) and effect values of the input series
CombineTimes == {1, 2, 3}

CombineValues == {-30, 20}

\* a pd.Series: its points in index order, each with its label t and its value
SeriesOver(T, f) ==
    [i \in 1..Cardinality(T) |->
        [t |-> SortedSeq(T)[i], effect |-> f[SortedSeq(T)[i]]]]

EffectSeries ==
    UNION {{SeriesOver(T, f) : f \in [T -> CombineValues]} :
              T \in SUBSET CombineTimes}

\* pd.Series(dtype=float)
EmptySeries == << >>

\* series.index as a set
IndexOf(series) == {series[i].t : i \in 1..Len(series)}

\* series[t] for a label of the index
ValueAt(series, t) ==
    series[CHOOSE i \in 1..Len(series) : series[i].t = t].effect

\* effect.reindex(combined_index, fill_value=0.0)
ReindexWrong(series, index) ==
    [k \in 1..Len(index) |->
        LET before == {t \in IndexOf(series) : t <= index[k]}
        IN [t |-> index[k],
            effect |-> IF before = {} THEN 0 ELSE ValueAt(series, Max(before))]]

Reindex(series, index) ==
    [k \in 1..Len(index) |->
        [t |-> index[k],
         effect |-> IF index[k] \in IndexOf(series)
                    THEN ValueAt(series, index[k]) ELSE 0]]

\* combined = pd.Series(0.0, index=combined_index)
CombinedSeedWrong(index) == [k \in 1..Len(index) |-> [t |-> index[k], effect |-> Unit]]

CombinedSeed(index) == [k \in 1..Len(index) |-> [t |-> index[k], effect |-> 0]]

\* one pass of the loop body on one point
CombinePoint(acc, aligned, method) ==
    IF method = "multiplicative" THEN FScale(acc, Unit + aligned, Unit)
    ELSE IF method = "max" THEN (IF aligned > acc THEN aligned ELSE acc)
    ELSE FAdd(acc, aligned)

\* for effect in event_effects: align, then combine into the accumulator
RECURSIVE CombineLoop(_, _, _, _)
CombineLoop(acc, effects, index, method) ==
    IF effects = << >> THEN acc
    ELSE LET aligned == Reindex(Head(effects), index)
         IN CombineLoop([k \in 1..Len(index) |->
                            [t |-> index[k],
                             effect |-> CombinePoint(acc[k].effect,
                                                     aligned[k].effect, method)]],
                        Tail(effects), index, method)

CombineMultipleEventEffects(effects, method) ==
    IF effects = << >> THEN EmptySeries
    ELSE LET combined_index ==
                 SortedSeq(UNION {IndexOf(effects[i]) : i \in 1..Len(effects)})
         IN CombineLoop(CombinedSeed(combined_index), effects, combined_index,
                        method)

InitCombine ==
    /\ cpc = "idle"
    /\ event_effects = << >>
    /\ combination_method = ""
    /\ combined = EmptySeries

\* combined = combine_multiple_event_effects(event_effects, combination_method)
CombineCall ==
    /\ cpc = "idle"
    /\ \E effects \in SeqsUpTo(EffectSeries, MaxSeries),
          method \in {"additive", "multiplicative", "max", "mean"} :
          /\ event_effects' = effects
          /\ combination_method' = method
          /\ combined' = CombineMultipleEventEffects(effects, method)
    /\ cpc' = "combined"

\* ------------------------------------------------------------------ validate_against_historical_data

\* EventImpactModeler.validate_against_historical_data: the position of the
\* call, the loaded _impact_links and _events, the arguments and the result
VARIABLES vpc, validator_links, validator_events, validation_args,
          validation_result

vvars == <<vpc, validator_links, validator_events, validation_args,
           validation_result>>

\* most impact links loaded into the validator
MaxValidatorLinks == 2

\* pd.NaT: an observation_date that is missing
NaT == [year |-> NaN, month |-> NaN, day |-> NaN]

\* the event the validation asks about
ValidatedEvent == "E1"

ValidatorLinks == [parent_id : {ValidatedEvent},
                   related_indicator : {TargetIndicator, OtherIndicator},
                   impact_magnitude : {475, NaN}, lag_months : {0, NaN}]

\* _events: record_id -> observation_date; no event, the event with a date,
\* the event without one
ValidatorEvents ==
    {[e \in {} |-> NaT]}
        \cup {[e \in {ValidatedEvent} |-> d] :
                 d \in {[year |-> 2023, month |-> 1, day |-> 15], NaT}}

\* observed_period[1]: before the series, a month end early on the ramp, a day
\* between two month ends, a month end past the ramp, a day after the series
EndDates == {[year |-> 2022, month |-> 12, day |-> 31],
             [year |-> 2023, month |-> 2, day |-> 28],
             [year |-> 2023, month |-> 3, day |-> 15],
             [year |-> 2024, month |-> 1, day |-> 31],
             [year |-> 2026, month |-> 6, day |-> 30]}

ValidationArgs == [indicator_code : {TargetIndicator},
                   event_id : {ValidatedEvent},
                   observed_change : {0, 200, 475},
                   end_date : EndDates]

NoValidationArgs == [indicator_code |-> "", event_id |-> "",
                     observed_change |-> 0, end_date |-> NaT]

NoResult == [validated |-> FALSE, reason |-> ""]

\* the label of the k-th point (k = 0 is the first) of
\* pd.date_range(start=event_date, periods=36, freq="M")
PointDate(event_date, k) ==
    LET months == event_date.month - 1 + k
        y == event_date.year + (months \div 12)
        m == (months % 12) + 1
    IN [year |-> y, month |-> m, day |-> DaysInMonth(y, m)]

\* end_date in effect_series.index
InIndex(event_date, end_date) ==
    \E k \in 0..(Periods - 1) : PointDate(event_date, k) = end_date

\* effect_series.reindex([end_date], method="ffill").iloc[0] if end_date in
\* effect_series.index else effect_series.iloc[-1]
EffectAtEnd(effect, event_date, end_date) ==
    IF InIndex(event_date, end_date)
    THEN effect[1 + CHOOSE k \in 0..(Periods - 1) :
                        PointDate(event_date, k) = end_date].effect
    ELSE effect[Len(effect)].effect

\* impact_link["impact_magnitude"].iloc[0] if pd.notna(...) else None
ValidatorMagnitudeWrong(link) == link.impact_magnitude

ValidatorMagnitude(link) ==
    IF IsNaN(link.impact_magnitude) THEN NoneVal ELSE link.impact_magnitude

\* impact_link["lag_months"].iloc[0] if pd.notna(...) else 0
ValidatorLag(link) == IF IsNaN(link.lag_months) THEN 0 ELSE link.lag_months

\* "x if value else None": None and 0.0 are both false
Truthy(x) == x # NoneVal /\ x # 0

\* the returned dictionary, or Raised where pd.date_range raises for NaT
Raised == [validated |-> FALSE, reason |-> "raised"]

ValidateAgainstHistoricalData(links, events, args) ==
    LET IsPair(l) == /\ l.parent_id = args.event_id
                     /\ l.related_indicator = args.indicator_code
        impact_link == SelectSeq(links, IsPair)
    IN IF impact_link = << >>
       THEN [validated |-> FALSE, reason |-> "No impact link found"]
       ELSE IF args.event_id \notin DOMAIN events
       THEN [validated |-> FALSE, reason |-> "Event not found"]
       ELSE LET event_date == events[args.event_id]
                impact_magnitude == ValidatorMagnitude(impact_link[1])
                lag_months == ValidatorLag(impact_link[1])
            IN IF impact_magnitude = NoneVal
               THEN [validated |-> FALSE,
                     reason |-> "Impact magnitude not specified"]
               ELSE IF event_date = NaT THEN Raised
               ELSE LET effect == RepresentEventEffectOverTime(event_date,
                                      impact_magnitude, lag_months, "gradual")
                        effect_at_end == EffectAtEnd(effect, event_date,
                                                     args.end_date)
                        difference ==
                            IF IsNaN(effect_at_end) THEN NaN
                            ELSE Abs(args.observed_change - effect_at_end)
                        relative_error ==
                            IF args.observed_change = 0 THEN NoneVal
                            ELSE FScale(difference, 100 * Unit,
                                        Abs(args.observed_change))
                    IN [validated |-> TRUE,
                        event_id |-> args.event_id,
                        indicator_code |-> args.indicator_code,
                        event_date |-> event_date,
                        predicted_impact |-> effect_at_end,
                        observed_change |-> args.observed_change,
                        difference |-> difference,
                        relative_error_pct |->
                            IF Truthy(relative_error) THEN relative_error
                            ELSE NoneVal,
                        lag_months |-> lag_months,
                        impact_magnitude |-> impact_magnitude]

InitValidate ==
    /\ vpc = "idle"
    /\ validator_links = << >>
    /\ validator_events = [e \in {} |-> NaT]
    /\ validation_args = NoValidationArgs
    /\ validation_result = NoResult

\* validate_against_historical_data(indicator_code, event_id, observed_change,
\* observed_period) on loaded impact data
ValidateCall ==
    /\ vpc = "idle"
    /\ \E links \in SeqsUpTo(ValidatorLinks, MaxValidatorLinks),
          events \in ValidatorEvents, args \in ValidationArgs :
          /\ validator_links' = links
          /\ validator_events' = events
          /\ validation_args' = args
          /\ LET result == ValidateAgainstHistoricalData(links, events, args)
             IN IF result = Raised
                THEN vpc' = "raised" /\ validation_result' = NoResult
                ELSE vpc' = "returned" /\ validation_result' = result

\* ------------------------------------------------------------------ ProjectLogger.get_logger

\* ProjectLogger: the class-level cache _loggers (name -> the level of the
\* cached logger, NoneVal for a name not in it), the number of calls made, the
\* arguments of the last call and the level of the logger it returned
VARIABLES loggers, logger_calls, logger_args, logger_level

lvars == <<loggers, logger_calls, logger_args, logger_level>>

\* calls of get_logger in one process
MaxLoggerCalls == 3

LoggerNames == {"test_module", "forecaster"}

\* logging.DEBUG, logging.INFO, logging.WARNING
LoggerLevels == {10, 20, 30}

InitLogger ==
    /\ loggers = [n \in LoggerNames |-> NoneVal]
    /\ logger_calls = 0
    /\ logger_args = [name |-> "", level |-> NoneVal]
    /\ logger_level = NoneVal

\* the cache after the call: a name already in it keeps its logger
CacheAfter(cache, name, level) ==
    IF cache[name] # NoneVal THEN cache ELSE [cache EXCEPT ![name] = level]

\* logger = get_logger(name, level)
GetLoggerCall ==
    /\ logger_calls < MaxLoggerCalls
    /\ \E name \in LoggerNames, level \in LoggerLevels :
          /\ logger_args' = [name |-> name, level |-> level]
          /\ loggers' = CacheAfter(loggers, name, level)
          /\ logger_level' = loggers'[name]
    /\ logger_calls' = logger_calls + 1

\* ------------------------------------------------------------------ DataEnricher.add_event

\* DataEnricher: the _enrichment_log, the arguments of the last add_event call
\* and the record it returned
VARIABLES enrichment_log, event_args, event_record

nvars == <<enrichment_log, event_args, event_record>>

\* add_event calls on one DataEnricher
MaxEventCalls == 2

\* Python None among string values
NoneStr == "None"

\* **kwargs: extra fields by name (no name of a declared parameter can be one)
EventKwargs ==
    UNION {[keys -> {"", "ACCESS"}] : keys \in SUBSET {"pillar", "region"}}

\* the arguments of add_event; record_type "event" and collected_by None are
\* the defaults
EventArgs == [category : {"policy"}, event_date : {"2023-01-01"},
              confidence : {"high"}, record_type : {"event", "observation"},
              collected_by : {NoneStr, "analyst"}, kwargs : EventKwargs]

NoEventArgs == [category |-> "", event_date |-> "", confidence |-> "",
                record_type |-> "", collected_by |-> NoneStr,
                kwargs |-> [k \in {} |-> ""]]

NoEventRecord == [k \in {} |-> ""]

\* {**the listed fields, **kwargs}: a later key replaces an earlier one
DictWith(fields, kwargs) ==
    [k \in DOMAIN fields \cup DOMAIN kwargs |->
        IF k \in DOMAIN kwargs THEN kwargs[k] ELSE fields[k]]

\* the event dictionary that add_event builds
EventRecord(args) ==
    DictWith([record_type |-> args.record_type,
              category |-> args.category,
              pillar |-> "",
              event_date |-> args.event_date,
              observation_date |-> args.event_date,
              confidence |-> args.confidence,
              collected_by |-> IF args.collected_by = NoneStr THEN "system"
                               ELSE args.collected_by],
             args.kwargs)

InitEnricher ==
    /\ enrichment_log = << >>
    /\ event_args = NoEventArgs
    /\ event_record = NoEventRecord

\* event = add_event(category, event_date, ..., **kwargs)
AddEventCall ==
    /\ Len(enrichment_log) < MaxEventCalls
    /\ \E args \in EventArgs :
          /\ event_args' = args
          /\ event_record' = EventRecord(args)
          /\ enrichment_log' = Append(enrichment_log,
                                      [type |-> "event", data |-> EventRecord(args)])

\* ------------------------------------------------------------------ ComparableEvidence

\* ComparableEvidence: _evidence_db (key -> list of records, the empty list for
\* a key not in it), the add_evidence calls made so far in call order, and the
\* arguments and result of the last get_evidence call
VARIABLES evidence_db, evidence_added, evidence_query, evidence_result

xvars == <<evidence_db, evidence_added, evidence_query, evidence_result>>

\* add_evidence calls on one ComparableEvidence
MaxEvidence == 2

EvidenceEventTypes == {"product", "product_launch"}

EvidenceIndicators == {"ACC", "launch_ACC"}

EvidenceCountries == {"Kenya", "Ghana"}

\* key = f"{event_type}_{indicator}"
EvidenceKey(event_type, indicator) == event_type \o "_" \o indicator

EvidenceKeys ==
    {EvidenceKey(e, i) : e \in EvidenceEventTypes, i \in EvidenceIndicators}

NoQuery == [event_type |-> "", indicator |-> ""]

InitEvidence ==
    /\ evidence_db = [key \in EvidenceKeys |-> << >>]
    /\ evidence_added = << >>
    /\ evidence_query = NoQuery
    /\ evidence_result = << >>

\* add_evidence(event_type, country, indicator, ...)
AddEvidenceCall ==
    /\ Len(evidence_added) < MaxEvidence
    /\ \E event_type \in EvidenceEventTypes, indicator \in EvidenceIndicators,
          country \in EvidenceCountries :
          LET record == [country |-> country, indicator |-> indicator]
              key == EvidenceKey(event_type, indicator)
          IN /\ evidence_db' =
                    [evidence_db EXCEPT ![key] = Append(evidence_db[key], record)]
             /\ evidence_added' =
                    Append(evidence_added,
                           [event_type |-> event_type, indicator |-> indicator,
                            record |-> record])
    /\ UNCHANGED <<evidence_query, evidence_result>>

\* self._evidence_db.get(key, [])
GetEvidence(db, event_type, indicator) == db[EvidenceKey(event_type, indicator)]

\* get_evidence(event_type, indicator)
GetEvidenceCall ==
    /\ \E event_type \in EvidenceEventTypes, indicator \in EvidenceIndicators :
          /\ evidence_query' = [event_type |-> event_type, indicator |-> indicator]
          /\ evidence_result' = GetEvidence(evidence_db, event_type, indicator)
    /\ UNCHANGED <<evidence_db, evidence_added>>

\* ------------------------------------------------------------------ DataLoader.load_file

\* DataLoader: the keys of _cache, the (filename, sheet_name) pairs loaded
\* successfully with use_cache = True since the cache was last cleared, the
\* last load_file call with its outcome, and the number of calls made
VARIABLES loader_cache, cached_loads, load_call, load_count

dvars == <<loader_cache, cached_loads, load_call, load_count>>

\* load_file calls on one DataLoader
MaxLoads == 3

\* the files under base_path: an Excel workbook with its sheets and a CSV file
LoaderFiles ==
    [unified |-> [suffix |-> ".xlsx", sheets |-> {"data", "impact_links"}],
     reference |-> [suffix |-> ".csv", sheets |-> {}]]

\* the filename argument; "missing" is no file
LoaderFilenames == {"unified", "reference", "missing"}

\* the sheet_name argument; str(None) is "None"
LoaderSheetNames == {NoneStr, "data"}

\* cache_key = f"{filename}_{sheet_name}"
CacheKey(filename, sheet_name) == filename \o "_" \o sheet_name

NoLoadCall == [filename |-> "", sheet_name |-> NoneStr, use_cache |-> FALSE,
               repeated |-> FALSE, outcome |-> "", cache_written |-> FALSE]

\* outcome of load_file and the cache after it: served from the cache, raised
\* FileNotFoundError, or read from the file
LoadFile(cache, filename, sheet_name, use_cache) ==
    IF use_cache /\ CacheKey(filename, sheet_name) \in cache
    THEN [outcome |-> "cache", cache |-> cache]
    ELSE IF filename \notin DOMAIN LoaderFiles
    THEN [outcome |-> "raised", cache |-> cache]
    ELSE IF LoaderFiles[filename].suffix = ".xlsx" /\ sheet_name = NoneStr
    THEN [outcome |-> "read",
          cache |-> IF use_cache
                    THEN cache \cup {CacheKey(filename, sheet) :
                                        sheet \in LoaderFiles[filename].sheets}
                    ELSE cache]
    ELSE [outcome |-> "read",
          cache |-> IF use_cache
                    THEN cache \cup {CacheKey(filename, sheet_name)}
                    ELSE cache]

InitLoader ==
    /\ loader_cache = {}
    /\ cached_loads = {}
    /\ load_call = NoLoadCall
    /\ load_count = 0

\* load_file(filename, sheet_name, use_cache)
LoadFileCall ==
    /\ load_count < MaxLoads
    /\ \E filename \in LoaderFilenames, sheet_name \in LoaderSheetNames,
          use_cache \in BOOLEAN :
          LET result == LoadFile(loader_cache, filename, sheet_name, use_cache)
          IN /\ loader_cache' = result.cache
             /\ cached_loads' =
                    IF use_cache /\ result.outcome # "raised"
                    THEN cached_loads \cup {<<filename, sheet_name>>}
                    ELSE cached_loads
             /\ load_call' = [filename |-> filename, sheet_name |-> sheet_name,
                              use_cache |-> use_cache,
                              repeated |-> <<filename, sheet_name>> \in cached_loads,
                              outcome |-> result.outcome,
                              cache_written |-> result.cache # loader_cache]
    /\ load_count' = load_count + 1

\* clear_cache()
ClearCacheCall ==
    /\ loader_cache' = {}
    /\ cached_loads' = {}
    /\ UNCHANGED <<load_call, load_count>>

\* ------------------------------------------------------------------ specifications

vars == <<fvars, mvars, evars, cvars, vvars, rvars, lvars, nvars, xvars, dvars>>

Init ==
    /\ InitForecast /\ InitMatrix /\ InitEffect /\ InitCombine /\ InitValidate
    /\ InitRepeat
    /\ InitLogger
    /\ InitEnricher
    /\ InitEvidence
    /\ InitLoader

Next == NextForecast /\ UNCHANGED <<mvars, evars, cvars, vvars, rvars, lvars, nvars, xvars, dvars>>

\* one forecast_indicator call, step by step
Spec == Init /\ [][Next]_vars

\* one direct apply_event_effects call
SpecEvents == Init /\ [][ApplyEventEffectsCall /\ UNCHANGED <<mvars, evars, cvars, vvars, rvars, lvars, nvars, xvars, dvars>>]_vars

\* one direct generate_scenarios call
SpecScenarios == Init /\ [][GenerateScenariosCall /\ UNCHANGED <<mvars, evars, cvars, vvars, rvars, lvars, nvars, xvars, dvars>>]_vars

NextMatrix == (BuildMatrixCall \/ SummaryOfBuilt) /\ UNCHANGED <<fvars, evars, cvars, vvars, rvars, lvars, nvars, xvars, dvars>>

\* build_association_matrix followed by get_matrix_summary
SpecMatrix == Init /\ [][NextMatrix]_vars

\* one direct get_matrix_summary call
SpecSummary == Init /\ [][SummaryCall /\ UNCHANGED <<fvars, evars, cvars, vvars, rvars, lvars, nvars, xvars, dvars>>]_vars

\* one represent_event_effect_over_time call
SpecEffect == Init /\ [][RepresentEffectCall /\ UNCHANGED <<fvars, mvars, cvars, vvars, rvars, lvars, nvars, xvars, dvars>>]_vars

\* one combine_multiple_event_effects call
SpecCombine == Init /\ [][CombineCall /\ UNCHANGED <<fvars, mvars, evars, vvars, rvars, lvars, nvars, xvars, dvars>>]_vars

\* one validate_against_historical_data call
SpecValidate ==
    Init /\ [][ValidateCall /\ UNCHANGED <<fvars, mvars, evars, cvars, rvars, lvars, nvars, xvars, dvars>>]_vars

\* fit_trend_model and forecast_trend on a series of the caller
SpecTrend ==
    Init /\ [][NextTrend /\ UNCHANGED <<mvars, evars, cvars, vvars, rvars, lvars, nvars, xvars, dvars>>]_vars

\* one direct get_historical_series call
SpecHistorical ==
    Init /\ [][GetHistoricalSeriesCall
               /\ UNCHANGED <<mvars, evars, cvars, vvars, rvars, lvars, nvars, xvars, dvars>>]_vars

\* forecast_indicator called twice on one ForecastModeler
SpecRepeat ==
    Init /\ [][NextRepeat /\ UNCHANGED <<mvars, evars, cvars, vvars, lvars, nvars, xvars, dvars>>]_vars

\* get_logger calls in one process
SpecLogger ==
    Init /\ [][(GetLoggerCall)
               /\ UNCHANGED <<fvars, mvars, evars, cvars, vvars, rvars, nvars, xvars, dvars>>]_vars

\* add_event calls on one DataEnricher
SpecEnricher ==
    Init /\ [][(AddEventCall)
               /\ UNCHANGED <<fvars, mvars, evars, cvars, vvars, rvars, lvars, xvars, dvars>>]_vars

\* build_association_matrix on links of any impact_direction
SpecDirections ==
    Init /\ [][BuildMatrixAnyDirection
               /\ UNCHANGED <<fvars, evars, cvars, vvars, rvars, lvars, nvars, xvars, dvars>>]_vars

\* add_evidence and get_evidence calls on one ComparableEvidence
SpecEvidence ==
    Init /\ [][(AddEvidenceCall \/ GetEvidenceCall)
               /\ UNCHANGED <<fvars, mvars, evars, cvars, vvars, rvars, lvars, nvars, dvars>>]_vars

\* load_file and clear_cache calls on one DataLoader
SpecLoader ==
    Init /\ [][(LoadFileCall \/ ClearCacheCall)
               /\ UNCHANGED <<fvars, mvars, evars, cvars, vvars, rvars, lvars, nvars, xvars>>]_vars

\* ------------------------------------------------------------------ claims

Columns(row) == <<row.forecast, row.lower_bound, row.upper_bound>>

InRange(x) == FLe(0, x) /\ FLe(x, Hundred)

TableInRange(table) ==
    \A k \in 1..Len(table) : \A c \in 1..3 : InRange(Columns(table[k])[c])

TableOrdered(table) ==
    \A k \in 1..Len(table) :
        /\ FLe(table[k].lower_bound, table[k].forecast)
        /\ FLe(table[k].forecast, table[k].upper_bound)

ReturnedTables == <<baseline, forecast, scenarios.base, scenarios.optimistic,
                    scenarios.pessimistic>>

\* C1: every forecast, lower_bound and upper_bound value of every table that
\* forecast_indicator produces (baseline, event-adjusted forecast, the three
\* scenarios) lies in [0, 100].
C1_ValuesInRange == \A t \in 1..5 : TableInRange(ReturnedTables[t])

\* C2: lower_bound <= forecast <= upper_bound in every row of the baseline, of
\* the event-adjusted forecast and of each scenario (linear model).
C2_IntervalOrdered == \A t \in 1..5 : TableOrdered(ReturnedTables[t])

\* the links the claim counts for a forecast year: those that target the
\* indicator, whose parent event exists with a date, and with m > 0
MonthsAfter(link, forecast_year) ==
    (forecast_year - EventTable[link.parent_id]) * 12 - link.lag_months

Counted(links, forecast_year) ==
    {i \in 1..Len(links) :
        /\ links[i].related_indicator = TargetIndicator
        /\ links[i].parent_id \in DOMAIN EventTable
        /\ ~IsNaN(EventTable[links[i].parent_id])
        /\ MonthsAfter(links[i], forecast_year) > 0}

\* sign * magnitude * min(1, m / 24)
Contribution(link, forecast_year) ==
    LET m == MonthsAfter(link, forecast_year)
        ramp == IF m >= 24 THEN link.impact_magnitude
                ELSE FScale(link.impact_magnitude, m, 24)
    IN IF IsNaN(ramp) THEN NaN
       ELSE IF link.impact_direction = "decrease" THEN -ramp ELSE ramp

RECURSIVE SumOver(_, _, _)
SumOver(I, links, forecast_year) ==
    IF I = {} THEN 0
    ELSE LET i == CHOOSE j \in I : TRUE
         IN FAdd(Contribution(links[i], forecast_year),
                 SumOver(I \ {i}, links, forecast_year))

\* C3: apply_event_effects sets event_effect of each forecast year to the sum of
\* sign * magnitude * min(1, m/24) over the counted links, and forecast to the
\* baseline forecast plus event_effect, clamped to [0, 100].
C3_EventEffectSum ==
    pc = "applied" =>
        \A k \in 1..Len(forecast) :
            LET expected == SumOver(Counted(impact_links, forecast[k].year),
                                    impact_links, forecast[k].year)
            IN /\ forecast[k].event_effect = expected
               /\ forecast[k].forecast = Clip(FAdd(baseline[k].forecast, expected))
               /\ forecast[k].lower_bound = baseline[k].lower_bound
               /\ forecast[k].upper_bound = baseline[k].upper_bound

\* two counted links of opposite direction and different lag, one still ramping
C3_Witness ==
    /\ pc = "applied"
    /\ Len(impact_links) = 2
    /\ Cardinality(Counted(impact_links, forecast[2].year)) = 2
    /\ Cardinality(Counted(impact_links, forecast[1].year)) = 1
    /\ impact_links[1].impact_direction # impact_links[2].impact_direction
    /\ impact_links[1].lag_months # impact_links[2].lag_months
    /\ forecast[2].event_effect \notin {0, NaN}
    /\ forecast[2].forecast = baseline[2].forecast + forecast[2].event_effect

MultiplierOf(name) == IF name = "optimistic" THEN multipliers.optimistic
                      ELSE IF name = "pessimistic" THEN multipliers.pessimistic
                      ELSE Unit

\* C4: generate_scenarios returns exactly optimistic, base and pessimistic, and
\* each scenario's forecast, lower_bound and upper_bound is the input column
\* times the scenario's multiplier, clamped to [0, 100], base included.
C4_ScenariosScaledAndClamped ==
    pc = "generated" =>
        /\ DOMAIN scenarios = {"optimistic", "base", "pessimistic"}
        /\ \A name \in DOMAIN scenarios :
              /\ Len(scenarios[name]) = Len(forecast)
              /\ \A k \in 1..Len(forecast) : \A c \in 1..3 :
                    Columns(scenarios[name][k])[c] =
                        Clip(FScale(Columns(forecast[k])[c], MultiplierOf(name), Unit))

ForecastSteps == {"trend", "events", "scenarios", "done"}

\* C5: with an empty historical series or fewer than 2 points forecast_indicator
\* ends in an error raised no later than fit_trend_model: no forecast step runs
\* and no baseline, forecast or scenarios is produced.
C5_InsufficientDataFails ==
    /\ pc \in ForecastSteps => Len(historical) >= 2
    /\ (pc # "idle" /\ Len(historical) < 2) =>
          /\ pc \in {"fit", "error"}
          /\ baseline = NoTable /\ forecast = NoTable /\ scenarios = NoScenarios
    /\ (pc = "error" /\ raised # "apply_event_effects") =>
          /\ Len(historical) < 2
          /\ raised = (IF historical = << >> THEN "forecast_indicator"
                       ELSE "fit_trend_model")

\* a one-point series: fit_trend_model raised, nothing was forecast
C5_Witness ==
    /\ pc = "error"
    /\ Len(historical) = 1
    /\ raised = "fit_trend_model"
    /\ baseline = NoTable

\* the links that map to the cell of event e and indicator i
LinksOf(e, i) ==
    {k \in 1..Len(matrix_links) :
        matrix_links[k].parent_id = e /\ matrix_links[k].related_indicator = i}

\* the value the claims give a link: the magnitude, negated for "decrease";
\* without a magnitude 0.1 for "increase" and -0.1 for "decrease"
SignedValues(link) ==
    IF ~IsNaN(link.impact_magnitude) /\ link.impact_magnitude # NoneVal
    THEN {IF link.impact_direction = "decrease" THEN 0 - link.impact_magnitude
          ELSE link.impact_magnitude}
    ELSE IF link.impact_direction = "increase" THEN {10}
    ELSE IF link.impact_direction = "decrease" THEN {-10}
    ELSE {10, -10}

\* C6: a cell that several links map to holds the signed value of a link of
\* the largest absolute magnitude, wherever that link stands among the links.
C6_LargestMagnitudeWins ==
    mpc # "idle" =>
        \A at \in DOMAIN matrix.cells :
            LET L == LinksOf(at[1], at[2])
            IN L # {} =>
                /\ \E k \in L : matrix.cells[at] = LinkValue(matrix_links[k])
                /\ \A k \in L : Abs(LinkValue(matrix_links[k])) <= Abs(matrix.cells[at])

\* links of -0.7 and then 0.3 on one cell: the first, larger one is kept
C6_Witness ==
    /\ mpc = "built"
    /\ Len(matrix_links) = 2
    /\ LinksOf("E1", "ACC_OWNERSHIP") = {1, 2}
    /\ LinkValue(matrix_links[1]) = -70
    /\ LinkValue(matrix_links[2]) = 30
    /\ <<"E1", "ACC_OWNERSHIP">> \in DOMAIN matrix.cells
    /\ matrix.cells[<<"E1", "ACC_OWNERSHIP">>] = -70

\* C7: a link's value is its impact_magnitude, negated when impact_direction is
\* "decrease"; without a magnitude it is 0.1 for increase and -0.1 for decrease.
\* Every cell with links holds such a value of one of its links.
C7_LinkValueResolved ==
    mpc # "idle" =>
        \A at \in DOMAIN matrix.cells :
            LET L == LinksOf(at[1], at[2])
            IN L # {} =>
                \E k \in L : matrix.cells[at] \in SignedValues(matrix_links[k])

\* one cell from a "decrease" link of magnitude 0.7, one from a "decrease" link
\* without magnitude
C7_Witness ==
    /\ mpc = "built"
    /\ Len(matrix_links) = 2
    /\ matrix_links[1].impact_direction = "decrease"
    /\ matrix_links[1].impact_magnitude = 70
    /\ matrix_links[2].impact_direction = "decrease"
    /\ IsNaN(matrix_links[2].impact_magnitude)
    /\ <<"E1", "ACC_OWNERSHIP">> \in DOMAIN matrix.cells
    /\ <<"E2", "USG_DIGITAL_PAY">> \in DOMAIN matrix.cells
    /\ matrix.cells[<<"E1", "ACC_OWNERSHIP">>] = -70
    /\ matrix.cells[<<"E2", "USG_DIGITAL_PAY">>] = -10
    /\ LinksOf("E1", "ACC_OWNERSHIP") = {1}
    /\ LinksOf("E2", "USG_DIGITAL_PAY") = {2}

\* C8: for a non-empty link set and no filter lists the matrix has one row per
\* distinct parent_id and one column per distinct related_indicator, and every
\* cell is a number: 0.0 where no link maps to it, never null.
C8_ShapeAndNoNull ==
    (mpc # "idle" /\ matrix_links # << >>
     /\ indicators_arg.is_none /\ events_arg.is_none) =>
        /\ Range(matrix.index) = {matrix_links[k].parent_id : k \in 1..Len(matrix_links)}
        /\ Len(matrix.index) = Cardinality(Range(matrix.index))
        /\ Range(matrix.columns) =
              {matrix_links[k].related_indicator : k \in 1..Len(matrix_links)}
                  \ {NoIndicator}
        /\ Len(matrix.columns) = Cardinality(Range(matrix.columns))
        /\ DOMAIN matrix.cells = Range(matrix.index) \X Range(matrix.columns)
        /\ \A at \in DOMAIN matrix.cells :
              /\ ~IsNaN(matrix.cells[at]) /\ matrix.cells[at] # NoneVal
              /\ LinksOf(at[1], at[2]) = {} => matrix.cells[at] = 0

\* two links on the diagonal of a 2 x 2 matrix: the other two cells are 0.0
C8_Witness ==
    /\ mpc = "built"
    /\ indicators_arg.is_none /\ events_arg.is_none
    /\ Len(matrix.index) = 2 /\ Len(matrix.columns) = 2
    /\ \E at \in DOMAIN matrix.cells :
          LinksOf(at[1], at[2]) = {} /\ matrix.cells[at] = 0
    /\ \E at \in DOMAIN matrix.cells : matrix.cells[at] # 0

AllCells == Range(matrix.index) \X Range(matrix.columns)

\* C9: average_impact_magnitude is the sum of |cell| over the non-zero cells
\* divided by the number of non-zero cells, for every matrix.
C9_AverageOverNonZeroCells ==
    (mpc = "summarised" /\ summary # NoSummary /\ NonZero(matrix, AllCells) # {}) =>
        FracEq(summary.average_impact_magnitude,
               Frac(SumAbs(matrix, NonZero(matrix, AllCells)),
                    Cardinality(NonZero(matrix, AllCells))))

\* C10: with t = days since the event / 30 (the months the code counts), the
\* effect of the immediate, gradual and distributed types is 0 at every point
\* with t < lag_months, and the immediate effect is impact_magnitude at every
\* point with t >= lag_months.
C10_ZeroBeforeLag ==
    (epc = "done"
     /\ effect_args.effect_type \in {"immediate", "gradual", "distributed"}) =>
        \A p \in 1..Len(effect_series) :
            /\ effect_series[p].days < 30 * effect_args.lag_months =>
                  effect_series[p].effect = 0
            /\ (effect_args.effect_type = "immediate"
                /\ effect_series[p].days >= 30 * effect_args.lag_months) =>
                  effect_series[p].effect = effect_args.impact_magnitude

\* an immediate effect with a lag of one month on an event of the first of a
\* 31-day month: 0 at no point, the first point lies exactly 30 days after it;
\* and with the 15th as the date the first point is 0, the second is not
C10_Witness ==
    /\ epc = "done"
    /\ effect_args.effect_type = "immediate"
    /\ effect_args.lag_months = 1
    /\ Len(effect_series) = Periods
    /\ effect_series[1].days < 30
    /\ effect_series[1].effect = 0
    /\ effect_series[2].days >= 30
    /\ effect_series[2].effect = effect_args.impact_magnitude

\* C11: for the gradual type, with t = days since the event / 30, the effect at
\* every point with t >= lag_months is impact_magnitude * min((t - lag_months)
\* / 12, 1), and so impact_magnitude at every point with t >= lag_months + 12.
C11_GradualRamp ==
    (epc = "done" /\ effect_args.effect_type = "gradual") =>
        \A p \in 1..Len(effect_series) :
            LET since == effect_series[p].days - 30 * effect_args.lag_months
            IN /\ (since >= 0 /\ since < 360) =>
                     effect_series[p].effect =
                         FScale(effect_args.impact_magnitude, since, 360)
               /\ since >= 360 =>
                     effect_series[p].effect = effect_args.impact_magnitude

\* a gradual effect with a lag of one month: a point before the lag, a point
\* on the ramp and a point twelve months after the lag
C11_Witness ==
    /\ epc = "done"
    /\ effect_args.effect_type = "gradual"
    /\ effect_args.lag_months = 1
    /\ effect_args.impact_magnitude > 0
    /\ effect_series[1].days < 30 /\ effect_series[1].effect = 0
    /\ \E p \in 1..Len(effect_series) :
          /\ effect_series[p].days > 30
          /\ effect_series[p].effect > 0
          /\ effect_series[p].effect < effect_args.impact_magnitude
    /\ \E p \in 1..Len(effect_series) :
          /\ effect_series[p].days >= 390
          /\ effect_series[p].days < 420
          /\ effect_series[p].effect = effect_args.impact_magnitude

\* C12: for the distributed type with impact_magnitude > 0 the effect never
\* increases once the lag has passed: effect(t2) <= effect(t1) for points with
\* t2 > t1 >= lag_months; it is impact_magnitude * 0.95^(t - lag_months), so
\* impact_magnitude at t = lag_months and below it, above 0, later.
C12_DistributedNonIncreasing ==
    (epc = "done" /\ effect_args.effect_type = "distributed"
     /\ effect_args.impact_magnitude > 0) =>
        \A p1 \in 1..Len(effect_series) :
            LET since == effect_series[p1].days - 30 * effect_args.lag_months
            IN since >= 0 =>
                /\ \A p2 \in 1..Len(effect_series) :
                      effect_series[p2].days > effect_series[p1].days =>
                          effect_series[p2].effect <= effect_series[p1].effect
                /\ effect_series[p1].effect > 0
                /\ effect_series[p1].effect <= effect_args.impact_magnitude
                /\ since = 0 =>
                      effect_series[p1].effect = effect_args.impact_magnitude
                /\ since % 30 = 0 =>
                      effect_series[p1].effect =
                          FScale(effect_args.impact_magnitude,
                                 PowerOf(DecayRate, since \div 30), 10000)

\* a distributed effect of positive magnitude with a lag of one month whose
\* first point lies exactly on the lag, and a strictly smaller later point
C12_Witness ==
    /\ epc = "done"
    /\ effect_args.effect_type = "distributed"
    /\ effect_args.impact_magnitude > 0
    /\ effect_args.lag_months = 1
    /\ effect_series[1].days = 30
    /\ effect_series[1].effect = effect_args.impact_magnitude
    /\ effect_series[2].effect < effect_series[1].effect
    /\ effect_series[Periods].effect < effect_series[2].effect

\* the value a series counts with at label t: its value there, 0 when it has
\* no point at t
CountsAs(series, t) == IF t \in IndexOf(series) THEN ValueAt(series, t) ELSE 0

UnionIndex == UNION {IndexOf(event_effects[i]) : i \in 1..Len(event_effects)}

RECURSIVE SumAt(_, _)
SumAt(I, t) ==
    IF I = {} THEN 0
    ELSE LET i == CHOOSE j \in I : TRUE
         IN CountsAs(event_effects[i], t) + SumAt(I \ {i}, t)

\* the labels of the result are the sorted union of the inputs' labels
OverSortedUnion(series) ==
    /\ Len(series) = Cardinality(UnionIndex)
    /\ \A k \in 1..Len(series) : series[k].t \in UnionIndex
    /\ \A k \in 1..Len(series) : k > 1 => series[k - 1].t < series[k].t

C14_ElementwiseMax ==
    (cpc = "combined" /\ combination_method = "max" /\ event_effects # << >>) =>
        /\ OverSortedUnion(combined)
        /\ \A k \in 1..Len(combined) :
              combined[k].effect =
                  Max({CountsAs(event_effects[i], combined[k].t) :
                          i \in 1..Len(event_effects)})

\* C15: with method multiplicative the accumulator starts at 0 and is
\* multiplied by (1 + effect_i) for each series, so the result is 0 at every
\* point of the sorted union for every non-empty list of finite series.
C15_MultiplicativeZero ==
    (cpc = "combined" /\ combination_method = "multiplicative"
     /\ event_effects # << >>) =>
        /\ OverSortedUnion(combined)
        /\ \A k \in 1..Len(combined) : combined[k].effect = 0

\* two series that both have a non-zero value at every one of three points
C15_Witness ==
    /\ cpc = "combined"
    /\ combination_method = "multiplicative"
    /\ Len(event_effects) = 2
    /\ IndexOf(event_effects[1]) = CombineTimes
    /\ IndexOf(event_effects[2]) = CombineTimes
    /\ \A t \in CombineTimes :
          ValueAt(event_effects[1], t) = 20 /\ ValueAt(event_effects[2], t) = -30
    /\ Len(combined) = 3
    /\ \A k \in 1..3 : combined[k].effect = 0

\* the links of the (event, indicator) pair the validation asks about
PairLinks ==
    {i \in 1..Len(validator_links) :
        /\ validator_links[i].parent_id = validation_args.event_id
        /\ validator_links[i].related_indicator = validation_args.indicator_code}

LinkFound == PairLinks # {}

EventFound == validation_args.event_id \in DOMAIN validator_events

\* the pair's link (the first, when there are several) states a magnitude
MagnitudeGiven ==
    LinkFound /\ ~IsNaN(validator_links[Min(PairLinks)].impact_magnitude)

C17_RelativeError ==
    (vpc = "returned" /\ validation_result.validated) =>
        /\ validation_result.difference =
               Abs(validation_args.observed_change
                     - validation_result.predicted_impact)
        /\ (validation_result.relative_error_pct = NoneVal) <=>
               (validation_args.observed_change = 0)
        /\ validation_args.observed_change # 0 =>
              /\ validation_result.relative_error_pct =
                     FScale(validation_result.difference, 100 * Unit,
                            Abs(validation_args.observed_change))
              /\ validation_result.relative_error_pct >= 0

DateNumber(date) == date.year * 10000 + date.month * 100 + date.day

\* the points of the series whose label is not after end_date
PointsUpTo(event_date, end_date) ==
    {k \in 0..(Periods - 1) :
        DateNumber(PointDate(event_date, k)) <= DateNumber(end_date)}

\* C18: predicted_impact is the gradual effect at the end date of
\* observed_period: the value of the latest series point not after that date,
\* which is the point of that date when the series has one.  An end date
\* between two points does not give the value of the final point.
C18_EffectAtEndOfPeriod ==
    (vpc = "returned" /\ validation_result.validated) =>
        LET event_date == validator_events[validation_args.event_id]
            gradual == RepresentEventEffectOverTime(event_date,
                           validation_result.impact_magnitude,
                           validation_result.lag_months, "gradual")
            upto == PointsUpTo(event_date, validation_args.end_date)
        IN upto # {} =>
               validation_result.predicted_impact = gradual[1 + Max(upto)].effect

\* the records of the requested indicator and pillar, by position
Matching ==
    {i \in 1..Len(unified_data) :
        /\ unified_data[i].record_type = "observation"
        /\ unified_data[i].pillar = TargetPillar
        /\ unified_data[i].indicator_code = TargetIndicator}

\* the last record of year y in original record order
LastOf(y) == unified_data[Max({i \in Matching : unified_data[i].year = y})]

\* the years whose last record has a value
KeptYears ==
    {y \in {unified_data[i].year : i \in Matching} \ {NaN} :
        ~IsNaN(LastOf(y).value_numeric)}

\* C19: get_historical_series returns only observation records of the
\* requested indicator and pillar, one point per year in strictly ascending
\* year order, the value of a year being that of its last record in record
\* order; a year whose value is then missing is dropped, and the result is
\* empty when no record matches.
C19_LastRecordPerYear ==
    pc = "extracted" =>
        /\ {historical[k].year : k \in 1..Len(historical)} = KeptYears
        /\ \A k \in 1..Len(historical) :
              /\ k > 1 => historical[k - 1].year < historical[k].year
              /\ historical[k].value_numeric =
                     LastOf(historical[k].year).value_numeric
        /\ Matching = {} => historical = << >>

ZeroVariance(series) ==
    /\ Len(series) >= 3
    /\ \A i \in 1..Len(series) : series[i].year = series[1].year

\* C21: when every year of the series passed to fit_trend_model and
\* forecast_trend is the same, an error is raised or the result is guarded: no
\* margin is inf or NaN from the division by the zero sum of squares.
C21_ZeroVarianceGuarded ==
    (pc \in {"events", "error"} /\ ZeroVariance(historical)) =>
        \/ raised # "none"
        \/ \A k \in 1..Len(baseline) :
              /\ Margin(model, historical, baseline[k].year) \notin {NaN, Inf}
              /\ ~IsNaN(baseline[k].lower_bound)
              /\ ~IsNaN(baseline[k].upper_bound)

\* C22: get_logger(name, level=L) returns a logger whose level is L, after any
\* earlier get_logger calls, also ones with the same name and another level.
C22_LoggerHasRequestedLevel ==
    logger_calls > 0 => logger_level = logger_args.level

\* C23: the record that add_event returns and the entry it appends to the
\* enrichment log have an empty pillar, and record_type "event" when the
\* record_type argument is left at its default, whatever the other arguments
\* and extra keyword fields are.
C23_EventHasEmptyPillar ==
    enrichment_log # << >> =>
        /\ event_record.pillar = ""
        /\ event_args.record_type = "event" => event_record.record_type = "event"
        /\ enrichment_log[Len(enrichment_log)].data = event_record
        /\ \A i \in 1..Len(enrichment_log) :
              /\ enrichment_log[i].type = "event"
              /\ enrichment_log[i].data.pillar = ""

\* the links that state a magnitude
WithMagnitude(links) ==
    LET Stated(l) == ~IsNaN(l.impact_magnitude) /\ l.impact_magnitude # NoneVal
    IN SelectSeq(links, Stated)

\* C24: in apply_event_effects a link whose impact_magnitude is absent (None or
\* NaN) adds exactly 0 to event_effect: the forecast of every year is a number
\* in [0, 100] and is what it would be without that link.
C24_AbsentMagnitudeAddsNothing ==
    pc = "applied" =>
        LET without == ApplyEventEffects(baseline, EventTable,
                                         WithMagnitude(impact_links),
                                         TargetIndicator)
        IN \A k \in 1..Len(forecast) :
              /\ InRange(forecast[k].forecast)
              /\ forecast[k].forecast = without[k].forecast
              /\ forecast[k].event_effect = without[k].event_effect

\* C25: forecast_indicator with include_events = true on datasets without an
\* impact-links table completes without error and returns a forecast equal to
\* the baseline, with event_effect 0 for every year.
C25_NoLinksTableGivesBaseline ==
    (include_events /\ ~HasLinksTable(impact_links)) =>
        /\ raised # "apply_event_effects"
        /\ pc \in {"scenarios", "done"} =>
              /\ Len(forecast) = Len(baseline)
              /\ \A k \in 1..Len(forecast) :
                    /\ forecast[k].forecast = baseline[k].forecast
                    /\ forecast[k].event_effect = 0

\* C26: the matrix depends on the set of impact links only: every permutation
\* of the links gives the same value in every cell, also when two links of a
\* cell have the same absolute magnitude and opposite sign.
C26_LinkOrderIndependent ==
    mpc # "idle" =>
        \A f \in Permutations(1..Len(matrix_links)) :
            BuildAssociationMatrix(
                [i \in 1..Len(matrix_links) |-> matrix_links[f[i]]],
                indicators_arg, events_arg).cells = matrix.cells

Sign(x) == IF x > 0 THEN 1 ELSE IF x < 0 THEN -1 ELSE 0

\* the link is the only one of its cell, so the cell holds its value
AloneInCell(i) ==
    LinksOf(matrix_links[i].parent_id, matrix_links[i].related_indicator) = {i}

CellOf(i) ==
    matrix.cells[<<matrix_links[i].parent_id, matrix_links[i].related_indicator>>]

\* C27: for every impact_direction value d, "increase" and "decrease" or not,
\* a link with direction d and no magnitude gets a value of the same sign as a
\* link with direction d and a positive magnitude.
C27_SignFollowsDirection ==
    mpc = "built" =>
        \A i, j \in 1..Len(matrix_links) :
            (/\ matrix_links[i].impact_direction = matrix_links[j].impact_direction
             /\ IsNaN(matrix_links[i].impact_magnitude)
             /\ ~IsNaN(matrix_links[j].impact_magnitude)
             /\ matrix_links[j].impact_magnitude > 0
             /\ AloneInCell(i) /\ AloneInCell(j)) =>
                Sign(CellOf(i)) = Sign(CellOf(j))

\* C28: in every row of the scenarios that forecast_indicator returns with the
\* default multipliers, pessimistic <= base <= optimistic holds for forecast,
\* for lower_bound and for upper_bound.
C28_ScenariosOrdered ==
    pc = "done" =>
        \A k \in 1..Len(scenarios.base) : \A c \in 1..3 :
            /\ FLe(Columns(scenarios.pessimistic[k])[c],
                   Columns(scenarios.base[k])[c])
            /\ FLe(Columns(scenarios.base[k])[c],
                   Columns(scenarios.optimistic[k])[c])

\* the records added with the pair, in insertion order
RECURSIVE AddedWith(_, _, _)
AddedWith(added, event_type, indicator) ==
    IF added = << >> THEN << >>
    ELSE LET rest == AddedWith(Tail(added), event_type, indicator)
             first == Head(added)
         IN IF first.event_type = event_type /\ first.indicator = indicator
            THEN <<first.record>> \o rest
            ELSE rest

\* C29: get_evidence(event_type, indicator) returns exactly the records added
\* with that (event_type, indicator) pair, in insertion order, and none added
\* under another pair, also when event_type + "_" + indicator coincide.
C29_EvidenceOfThePairOnly ==
    \A event_type \in EvidenceEventTypes, indicator \in EvidenceIndicators :
        GetEvidence(evidence_db, event_type, indicator)
            = AddedWith(evidence_added, event_type, indicator)

\* C30: after a successful load_file(filename, sheet_name, use_cache=True), a
\* repeated call with the same filename and sheet_name and no clear_cache in
\* between is served from the cache without reading the file, for CSV and
\* Excel files and for sheet_name = None; a call with use_cache = False is not
\* served from the cache and does not write it.
C30_RepeatedLoadFromCache ==
    load_count > 0 =>
        /\ (load_call.use_cache /\ load_call.repeated) =>
               load_call.outcome = "cache"
        /\ ~load_call.use_cache =>
               (load_call.outcome # "cache" /\ ~load_call.cache_written)

====
